---- MODULE Spec2Model ----
(***************************************************************************)
(* Critical Path Method core of main.py, compute_cpm_and_export_pdf:       *)
(* graph construction, Kahn's topological sort, forward pass, backward     *)
(* pass, slack, longest-path dynamic programme and terminal selection      *)
(* (main.py lines 48-132).  Spreadsheet parsing, the diagram and the PDF   *)
(* are not modelled.                                                       *)
(*                                                                         *)
(* Task ids are the numbers 1..n in declaration order (the order of the    *)
(* rows of the sheet); the id 0 names no task and stands for a predecessor *)
(* cell that references an unknown task.  A Python dict is a function      *)
(* whose DOMAIN is the set of keys present; a lookup of an absent key is    *)
(* a KeyError.                                                             *)
(***************************************************************************)
EXTENDS Integers, Sequences, FiniteSets

\* ------------------------------------------------------------- bounds
MaxTasks == 3     \* at most this many rows in the sheet
MaxDur == 2       \* durations are drawn from 0..MaxDur
MaxPreds == 2     \* at most this many entries in one Predecessors cell

VARIABLES
    tasks,             \* line 48: list of task ids, declaration order
    duration,          \* line 49: dict task -> duration
    predecessors,      \* line 51: dict task -> list of predecessor ids
    successors,        \* line 52: defaultdict id -> list of tasks
    in_degree,         \* line 64
    queue,             \* line 65
    topo_order,        \* line 66
    ES, EF,            \* line 79
    project_duration,  \* line 87: <<>> while unassigned, <<v>> once assigned
    LS, LF,            \* line 92
    slack,             \* line 100
    best_info,         \* line 108: dict task -> (total_duration, node_count, path)
    end_tasks,         \* line 122
    critical_path,     \* line 123
    best_tuple,        \* line 124
    critical,          \* line 132: the path handed to the report
    pc,                \* the stage the function is in
    i,                 \* position of the running for-loop in its list
    error              \* "" or the name of the exception that ended the call

vars == <<tasks, duration, predecessors, successors, in_degree, queue,
          topo_order, ES, EF, project_duration, LS, LF, slack, best_info,
          end_tasks, critical_path, best_tuple, critical, pc, i, error>>

\* ------------------------------------------------------------ helpers
Range(s) == {s[k] : k \in DOMAIN s}

\* d[k] = v on a dict
Put(d, k, v) == [x \in (DOMAIN d) \cup {k} |-> IF x = k THEN v ELSE d[x]]

Max(S) == CHOOSE x \in S : \A y \in S : y <= x
Min(S) == CHOOSE x \in S : \A y \in S : x <= y

\* Python's > on 2-tuples: lexicographic
TupleGT(a, b) == a[1] > b[1] \/ (a[1] = b[1] /\ a[2] > b[2])

RECURSIVE SeqSum(_, _)
SeqSum(s, d) == IF s = <<>> THEN 0 ELSE d[Head(s)] + SeqSum(Tail(s), d)

\* ------------------------------------------------- graph construction
\* lines 54-59: successors[p].append(task) for every row in order and every
\* p of the row in order; t appears in successors[p] once per occurrence of
\* p in predecessors[t]
RECURSIVE Occurrences(_, _)
Occurrences(preds, p) ==
    IF preds = <<>> THEN 0
    ELSE (IF Head(preds) = p THEN 1 ELSE 0) + Occurrences(Tail(preds), p)

RECURSIVE Repeat(_, _)
Repeat(t, k) == IF k = 0 THEN <<>> ELSE <<t>> \o Repeat(t, k - 1)

RECURSIVE SuccessorsOf(_, _, _, _)
SuccessorsOf(p, preds, t, n) ==
    IF t > n THEN <<>>
    ELSE Repeat(t, Occurrences(preds[t], p)) \o SuccessorsOf(p, preds, t + 1, n)

BuildSuccessors(preds, n) == [p \in 0..n |-> SuccessorsOf(p, preds, 1, n)]

\* a variant of line 64 that counts each distinct predecessor once
BuildInDegreeDistinct(preds, n) == [t \in 1..n |-> Cardinality(Range(preds[t]))]

\* line 64
BuildInDegree(preds, n) == [t \in 1..n |-> Len(preds[t])]

\* line 65
BuildQueue(deg, n) == SelectSeq([k \in 1..n |-> k], LAMBDA t : deg[t] = 0)

\* the Predecessors cell of a row: a list of at most MaxPreds ids
PredLists(n) == UNION {[1..k -> 0..n] : k \in 0..MaxPreds}

\* the state at line 66, for the given sheet
Loaded(n, dur, preds) ==
    /\ tasks = [k \in 1..n |-> k]
    /\ duration = dur
    /\ predecessors = preds
    /\ successors = BuildSuccessors(preds, n)
    /\ in_degree = BuildInDegree(preds, n)
    /\ queue = BuildQueue(BuildInDegree(preds, n), n)
    /\ topo_order = <<>>
    /\ ES = <<>> /\ EF = <<>> /\ LS = <<>> /\ LF = <<>>
    /\ project_duration = <<>>
    /\ slack = <<>>
    /\ best_info = <<>>
    /\ end_tasks = <<>>
    /\ critical_path = <<>>
    /\ best_tuple = <<0, 0>>
    /\ critical = <<>>
    /\ pc = "kahn"
    /\ i = 0
    /\ error = ""

Init ==
    \E n \in 0..MaxTasks :
        \E dur \in [1..n -> 0..MaxDur] :
            \E preds \in [1..n -> PredLists(n)] :
                Loaded(n, dur, preds)

\* ------------------------------------------------------ Kahn's algorithm
\* a variant of lines 71-74 without the test of line 73
RECURSIVE RelaxNoDegreeCheck(_, _, _)
RelaxNoDegreeCheck(succs, deg, q) ==
    IF succs = <<>> THEN [in_degree |-> deg, queue |-> q]
    ELSE LET succ == Head(succs)
             d == deg[succ] - 1
         IN RelaxNoDegreeCheck(Tail(succs), [deg EXCEPT ![succ] = d], Append(q, succ))

\* lines 71-74: the for-loop over successors[node]
RECURSIVE Relax(_, _, _)
Relax(succs, deg, q) ==
    IF succs = <<>> THEN [in_degree |-> deg, queue |-> q]
    ELSE LET succ == Head(succs)
             d == deg[succ] - 1
         IN Relax(Tail(succs), [deg EXCEPT ![succ] = d],
                  IF d = 0 THEN Append(q, succ) ELSE q)

\* lines 68-74: one iteration of the while-loop
KahnStep ==
    /\ pc = "kahn" /\ error = ""
    /\ queue # <<>>
    /\ LET node == Head(queue)
           r == Relax(successors[node], in_degree, Tail(queue))
       IN /\ topo_order' = Append(topo_order, node)
          /\ in_degree' = r.in_degree
          /\ queue' = r.queue
    /\ UNCHANGED <<tasks, duration, predecessors, successors, ES, EF,
                   project_duration, LS, LF, slack, best_info, end_tasks,
                   critical_path, best_tuple, critical, pc, i, error>>

\* line 68 false, line 79: the queue is empty, the forward pass begins
KahnExit ==
    /\ pc = "kahn" /\ error = ""
    /\ queue = <<>>
    /\ pc' = "forward"
    /\ i' = 1
    /\ ES' = <<>> /\ EF' = <<>>
    /\ UNCHANGED <<tasks, duration, predecessors, successors, in_degree, queue,
                   topo_order, project_duration, LS, LF, slack, best_info,
                   end_tasks, critical_path, best_tuple, critical, error>>

\* ---------------------------------------------------------- forward pass
\* a variant of line 84 with min in place of max
EarliestStartMin(preds, ef) ==
    IF preds = <<>> THEN 0 ELSE Min({ef[p] : p \in Range(preds)})

\* lines 81-84: ES of a task whose predecessors all have an EF
EarliestStart(preds, ef) ==
    IF preds = <<>> THEN 0 ELSE Max({ef[p] : p \in Range(preds)})

\* lines 80-85: one iteration; EF[p] of an absent p is a KeyError
ForwardStep ==
    /\ pc = "forward" /\ error = ""
    /\ i <= Len(topo_order)
    /\ LET task == topo_order[i]
           preds == predecessors[task]
       IN IF preds # <<>> /\ ~(Range(preds) \subseteq DOMAIN EF)
          THEN /\ error' = "KeyError"
               /\ UNCHANGED <<ES, EF, i>>
          ELSE LET es == EarliestStart(preds, EF)
               IN /\ ES' = Put(ES, task, es)
                  /\ EF' = Put(EF, task, es + duration[task])
                  /\ i' = i + 1
                  /\ error' = error
    /\ UNCHANGED <<tasks, duration, predecessors, successors, in_degree, queue,
                   topo_order, project_duration, LS, LF, slack, best_info,
                   end_tasks, critical_path, best_tuple, critical, pc>>

\* line 87 and line 92: max() of an empty sequence is a ValueError
ForwardEnd ==
    /\ pc = "forward" /\ error = ""
    /\ i > Len(topo_order)
    /\ IF DOMAIN EF = {}
       THEN /\ error' = "ValueError"
            /\ UNCHANGED <<project_duration, LS, LF, pc, i>>
       ELSE /\ project_duration' = <<Max({EF[t] : t \in DOMAIN EF})>>
            /\ LS' = <<>> /\ LF' = <<>>
            /\ pc' = "backward"
            /\ i' = Len(topo_order)
            /\ error' = error
    /\ UNCHANGED <<tasks, duration, predecessors, successors, in_degree, queue,
                   topo_order, ES, EF, slack, best_info, end_tasks,
                   critical_path, best_tuple, critical>>

\* --------------------------------------------------------- backward pass
\* a variant of line 97 with max in place of min
LatestFinishMax(succs, ls, pd) ==
    IF succs = <<>> THEN pd ELSE Max({ls[s] : s \in Range(succs)})

\* lines 94-97: LF of a task whose successors all have an LS
LatestFinish(succs, ls, pd) ==
    IF succs = <<>> THEN pd ELSE Min({ls[s] : s \in Range(succs)})

\* lines 93-98: one iteration over reversed(topo_order)
BackwardStep ==
    /\ pc = "backward" /\ error = ""
    /\ i >= 1
    /\ LET task == topo_order[i]
           succs == successors[task]
       IN IF succs # <<>> /\ ~(Range(succs) \subseteq DOMAIN LS)
          THEN /\ error' = "KeyError"
               /\ UNCHANGED <<LS, LF, i>>
          ELSE LET lf == LatestFinish(succs, LS, project_duration[1])
               IN /\ LF' = Put(LF, task, lf)
                  /\ LS' = Put(LS, task, lf - duration[task])
                  /\ i' = i - 1
                  /\ error' = error
    /\ UNCHANGED <<tasks, duration, predecessors, successors, in_degree, queue,
                   topo_order, ES, EF, project_duration, slack, best_info,
                   end_tasks, critical_path, best_tuple, critical, pc>>

\* lines 100 and 108: the slack of every task of the sheet
ComputeSlack ==
    /\ pc = "backward" /\ error = ""
    /\ i = 0
    /\ IF Range(tasks) \subseteq (DOMAIN LS \cap DOMAIN ES)
       THEN /\ slack' = [t \in Range(tasks) |-> LS[t] - ES[t]]
            /\ best_info' = <<>>
            /\ pc' = "dp"
            /\ i' = 1
            /\ error' = error
       ELSE /\ error' = "KeyError"
            /\ UNCHANGED <<slack, best_info, pc, i>>
    /\ UNCHANGED <<tasks, duration, predecessors, successors, in_degree, queue,
                   topo_order, ES, EF, project_duration, LS, LF, end_tasks,
                   critical_path, best_tuple, critical>>

\* ------------------------------------------------- critical-path selection
\* best_info.get(p, (0, 0, []))
InfoGet(info, p) ==
    IF p \in DOMAIN info THEN info[p]
    ELSE [total_duration |-> 0, node_count |-> 0, path |-> <<>>]

\* a variant of the key of line 117 that leaves the node count out
InfoKeyDurationOnly(info, p) == <<InfoGet(info, p).total_duration, 0>>

\* line 117: the key, the first two fields
InfoKey(info, p) == <<InfoGet(info, p).total_duration, InfoGet(info, p).node_count>>

\* lines 115-118: Python's max(iterable, key=...) keeps the first maximal item
RECURSIVE MaxPred(_, _, _)
MaxPred(preds, info, best) ==
    IF preds = <<>> THEN best
    ELSE MaxPred(Tail(preds), info,
                 IF TupleGT(InfoKey(info, Head(preds)), InfoKey(info, best))
                 THEN Head(preds) ELSE best)

\* lines 110-120: the entry of best_info for task
BestEntry(task, info) ==
    IF predecessors[task] = <<>>
    THEN [total_duration |-> duration[task], node_count |-> 1, path |-> <<task>>]
    ELSE LET prev == MaxPred(Tail(predecessors[task]), info, Head(predecessors[task]))
             b == InfoGet(info, prev)
         IN [total_duration |-> b.total_duration + duration[task],
             node_count |-> b.node_count + 1,
             path |-> Append(b.path, task)]

\* lines 109-120: one iteration
DpStep ==
    /\ pc = "dp" /\ error = ""
    /\ i <= Len(topo_order)
    /\ best_info' = Put(best_info, topo_order[i], BestEntry(topo_order[i], best_info))
    /\ i' = i + 1
    /\ UNCHANGED <<tasks, duration, predecessors, successors, in_degree, queue,
                   topo_order, ES, EF, project_duration, LS, LF, slack,
                   end_tasks, critical_path, best_tuple, critical, pc, error>>

\* line 122
EndTasks == SelectSeq(tasks, LAMBDA t : successors[t] = <<>>)

\* lines 122-124
StartSelect ==
    /\ pc = "dp" /\ error = ""
    /\ i > Len(topo_order)
    /\ end_tasks' = EndTasks
    /\ critical_path' = <<>>
    /\ best_tuple' = <<0, 0>>
    /\ pc' = "select"
    /\ i' = 1
    /\ UNCHANGED <<tasks, duration, predecessors, successors, in_degree, queue,
                   topo_order, ES, EF, project_duration, LS, LF, slack,
                   best_info, critical, error>>

\* a variant of line 128 that compares the total duration alone
ReplacesDurationOnly(candidate, best) == candidate[1] > best[1]

\* a variant of line 128 with >= in place of >
ReplacesOrEqual(candidate, best) == TupleGT(candidate, best) \/ candidate = best

\* line 128
Replaces(candidate, best) == TupleGT(candidate, best)

\* lines 125-130: one iteration
SelectStep ==
    /\ pc = "select" /\ error = ""
    /\ i <= Len(end_tasks)
    /\ LET b == InfoGet(best_info, end_tasks[i])
           candidate == <<b.total_duration, b.node_count>>
       IN IF Replaces(candidate, best_tuple)
          THEN /\ best_tuple' = candidate
               /\ critical_path' = b.path
          ELSE UNCHANGED <<best_tuple, critical_path>>
    /\ i' = i + 1
    /\ UNCHANGED <<tasks, duration, predecessors, successors, in_degree, queue,
                   topo_order, ES, EF, project_duration, LS, LF, slack,
                   best_info, end_tasks, critical, pc, error>>

\* line 132: the schedule is complete
Finish ==
    /\ pc = "select" /\ error = ""
    /\ i > Len(end_tasks)
    /\ critical' = critical_path
    /\ pc' = "done"
    /\ UNCHANGED <<tasks, duration, predecessors, successors, in_degree, queue,
                   topo_order, ES, EF, project_duration, LS, LF, slack,
                   best_info, end_tasks, critical_path, best_tuple, i, error>>

Next ==
    \/ KahnStep
    \/ KahnExit
    \/ ForwardStep
    \/ ForwardEnd
    \/ BackwardStep
    \/ ComputeSlack
    \/ DpStep
    \/ StartSelect
    \/ SelectStep
    \/ Finish

\* every sheet with at most MaxTasks rows
Spec == Init /\ [][Next]_vars

\* the same sheets, with the sequential control flow always taking its next step
FairSpec == Init /\ [][Next]_vars /\ WF_vars(Next)

\* ------------------------------------------------- the sheet, as a graph
\* (defined from tasks, duration and predecessors alone)
N == Len(tasks)
TaskSet == Range(tasks)

\* p -> t is a dependency edge
IsEdge(p, t) == p \in Range(predecessors[t])

Edges == {e \in TaskSet \X TaskSet : IsEdge(e[1], e[2])}

RECURSIVE Closure(_)
Closure(R) ==
    LET R2 == R \cup {e \in TaskSet \X TaskSet :
                        \E b \in TaskSet : <<e[1], b>> \in R /\ <<b, e[2]>> \in R}
    IN IF R2 = R THEN R ELSE Closure(R2)

\* some task depends, directly or not, on itself
Cyclic == \E t \in TaskSet : <<t, t>> \in Closure(Edges)

\* some predecessor id is the id of no task
Dangling == \E t \in TaskSet : ~(Range(predecessors[t]) \subseteq TaskSet)

ValidDag == N >= 1 /\ ~Dangling /\ ~Cyclic
Invalid == N = 0 \/ Dangling \/ Cyclic

Roots == {t \in TaskSet : predecessors[t] = <<>>}
Terminals == {t \in TaskSet : \A u \in TaskSet : ~IsEdge(t, u)}
SuccSet(t) == {u \in TaskSet : IsEdge(t, u)}

\* every path from a task with no predecessors to a task with no successors
RootToTerminalPaths ==
    {s \in UNION {[1..k -> TaskSet] : k \in 1..N} :
        /\ s[1] \in Roots
        /\ s[Len(s)] \in Terminals
        /\ \A j \in 1..(Len(s) - 1) : IsEdge(s[j], s[j + 1])}

PathDur(s) == SeqSum(s, duration)
PathKey(s) == <<PathDur(s), Len(s)>>

\* the call has ended, with a schedule or with an exception
Terminated == pc = "done" \/ error # ""

Position(t) == CHOOSE k \in DOMAIN topo_order : topo_order[k] = t

\* ------------------------------------------------------------- claims

\* C1: for a non-empty acyclic sheet with no dangling predecessor id (durations
\* >= 0, all-zero included) the call completes and the critical path it hands
\* on is a non-empty root-to-terminal path along dependency edges whose
\* durations sum to project_duration.
C1_CriticalPathIsFullPath ==
    /\ error # "" => Invalid
    /\ (pc = "done" /\ ValidDag) =>
          /\ critical # <<>>
          /\ critical \in RootToTerminalPaths
          /\ PathDur(critical) = project_duration[1]

\* C1 witness: a finished run on a valid sheet whose durations are all zero
\* and whose critical path has an edge.
C1_Witness ==
    /\ pc = "done" /\ ValidDag
    /\ \A t \in TaskSet : duration[t] = 0
    /\ Len(critical) >= 2

\* C2: on a valid sheet, once slack is computed, every slack is >= 0 and a
\* task has slack 0 exactly when it lies on a root-to-terminal path of maximum
\* total duration, that maximum being project_duration.
C2_SlackZeroIffOnLongestPath ==
    (pc \in {"dp", "select", "done"} /\ ValidDag) =>
        /\ project_duration[1] = Max({PathDur(s) : s \in RootToTerminalPaths})
        /\ \A t \in TaskSet :
              /\ slack[t] = LS[t] - ES[t]
              /\ slack[t] >= 0
              /\ slack[t] = 0 <=>
                    \E s \in RootToTerminalPaths :
                        t \in Range(s) /\ PathDur(s) = project_duration[1]

\* C2 witness: slack computed on a valid sheet with a task of positive slack
\* next to a task of zero slack.
C2_Witness ==
    /\ pc = "dp" /\ ValidDag
    /\ \E t \in TaskSet : slack[t] > 0
    /\ \E t \in TaskSet : slack[t] = 0 /\ predecessors[t] # <<>>

\* C3: on a valid sheet, when Kahn's loop has ended, topo_order holds every
\* task exactly once and every predecessor of a task stands before it.
C3_TopoOrderComplete ==
    (pc # "kahn" /\ ValidDag) =>
        /\ Len(topo_order) = N
        /\ \A t \in TaskSet : Cardinality({k \in DOMAIN topo_order : topo_order[k] = t}) = 1
        /\ \A t \in TaskSet : \A p \in Range(predecessors[t]) : Position(p) < Position(t)

\* C3 witness: Kahn's loop has ended on a valid sheet whose topological order
\* differs from the declaration order.
C3_Witness ==
    /\ pc = "forward" /\ ValidDag
    /\ N = MaxTasks
    /\ topo_order # tasks
    /\ Edges # {}

\* C4: a sheet with a dependency cycle ends with CycleError or
\* MalformedGraphError.
C4_CycleRaisesMalformedGraph ==
    (Terminated /\ Cyclic) => error \in {"CycleError", "MalformedGraphError"}

\* C5: a sheet with a predecessor id that is no task's id ends with
\* MalformedGraphError, raised before Kahn's loop dequeues anything.
C5_DanglingRaisesMalformedGraph ==
    Dangling =>
        /\ topo_order = <<>>
        /\ Terminated => error = "MalformedGraphError"

\* C6: on an invalid sheet (no task, a cycle, a dangling id) neither pass nor
\* the selection executes a step and no part of a schedule is computed.
C6_InvalidFailsAtConstruction ==
    Invalid =>
        /\ DOMAIN ES = {} /\ DOMAIN EF = {}
        /\ project_duration = <<>>
        /\ DOMAIN LS = {} /\ DOMAIN LF = {}
        /\ DOMAIN slack = {}
        /\ DOMAIN best_info = {}
        /\ critical = <<>>

\* the terminal tasks the selection loop has examined so far
Examined ==
    IF pc = "done" THEN Terminals
    ELSE IF pc = "select" THEN {end_tasks[k] : k \in 1..(i - 1)}
    ELSE {}

\* those of them that carry the greatest (total_duration, node_count) pair
TerminalKey(t) == InfoKey(best_info, t)
MaxExamined == {t \in Examined : \A u \in Examined : ~TupleGT(TerminalKey(u), TerminalKey(t))}

\* C7: when several terminal tasks share the greatest (total_duration,
\* node_count) pair, the path selected is the stored path of the first of
\* them in declaration order: at no point of the selection loop, and not in
\* the path handed on, has a later terminal with an equal pair replaced it.
C7_FirstTerminalWinsTie ==
    Cardinality(MaxExamined) >= 2 =>
        /\ critical_path = best_info[Min(MaxExamined)].path
        /\ pc = "done" => critical = best_info[Min(MaxExamined)].path

\* C7 witness: a finished run in which two terminal tasks tie for the
\* greatest pair.
C7_Witness ==
    /\ pc = "done"
    /\ Cardinality(MaxExamined) >= 2
    /\ \E t \in TaskSet : predecessors[t] # <<>>

\* C8: on a valid sheet the path handed on has the greatest total duration of
\* all root-to-terminal paths and, among those of that duration, the greatest
\* number of nodes.
C8_PathIsLexMax ==
    (pc = "done" /\ ValidDag) =>
        /\ critical \in RootToTerminalPaths
        /\ \A s \in RootToTerminalPaths :
              /\ PathDur(s) <= PathDur(critical)
              /\ PathDur(s) = PathDur(critical) => Len(s) <= Len(critical)

\* C8 witness: a finished run where two root-to-terminal paths have the
\* maximum duration and different node counts.
C8_Witness ==
    /\ pc = "done" /\ ValidDag
    /\ \E s \in RootToTerminalPaths :
          PathDur(s) = PathDur(critical) /\ Len(s) < Len(critical)
    /\ \E t \in TaskSet : Len(predecessors[t]) >= 2 /\ t \in Range(critical)

\* C9: on a valid sheet, after both passes: EF = ES + duration and
\* LF = LS + duration; ES is 0 without predecessors, else the maximum EF of
\* the predecessors; LF is project_duration without successors, else the
\* minimum LS of the successors; project_duration is the maximum EF of all
\* tasks and the maximum LF of the terminal tasks.
C9_PassEquations ==
    (pc \in {"dp", "select", "done"} /\ ValidDag) =>
        /\ \A t \in TaskSet :
              /\ EF[t] = ES[t] + duration[t]
              /\ LF[t] = LS[t] + duration[t]
              /\ ES[t] = IF predecessors[t] = <<>> THEN 0
                         ELSE Max({EF[p] : p \in Range(predecessors[t])})
              /\ LF[t] = IF SuccSet(t) = {} THEN project_duration[1]
                         ELSE Min({LS[u] : u \in SuccSet(t)})
        /\ project_duration[1] = Max({EF[t] : t \in TaskSet})
        /\ project_duration[1] = Max({LF[t] : t \in Terminals})

\* C9 witness: both passes done on a valid sheet with a task of two distinct
\* predecessors and a task of two distinct successors.
C9_Witness ==
    /\ pc = "dp" /\ ValidDag
    /\ \E t \in TaskSet : Cardinality(Range(predecessors[t])) >= 2
    /\ \E t \in TaskSet : Cardinality(SuccSet(t)) >= 2

\* what holds of Kahn's loop at every moment, whatever the sheet
KahnSafe ==
    /\ \A t \in TaskSet : in_degree[t] >= 0
    /\ Len(topo_order \o queue) = Cardinality(Range(topo_order \o queue))
    /\ Len(topo_order) <= N
    /\ \A k \in DOMAIN topo_order :
          \A p \in Range(predecessors[topo_order[k]]) :
              \E j \in 1..(k - 1) : topo_order[j] = p
    /\ pc = "forward" => error # "KeyError"

\* C10: for any sheet, cyclic and dangling ones included, Kahn's loop ends,
\* no in_degree ever becomes negative, every task is enqueued and appended
\* at most once, a task is appended only after all its declared
\* predecessors, and the forward pass never looks up the EF of a task that
\* has none.
C10_KahnTerminatesSafely == []KahnSafe /\ <>(pc # "kahn")

\* C10 witness: Kahn's loop has ended, having appended some but not all
\* tasks, on a sheet with a cycle, a dangling id and a repeated predecessor.
C10_Witness ==
    /\ pc = "forward"
    /\ Cyclic /\ Dangling
    /\ topo_order # <<>>
    /\ \E t \in TaskSet : Len(predecessors[t]) > Cardinality(Range(predecessors[t]))

\* an invalid sheet never yields a schedule: the call ends in an exception
InvalidNeverCompletes == Invalid => pc \notin {"dp", "select", "done"}

====
